---------------------------- MODULE Spec2Model ----------------------------
(***************************************************************************)
(* A model of the crypto scripts: the fee model, the strategy simulators   *)
(* and the monthly simulation of invest.py, the fetchers of invest.py,     *)
(* crypto_recommendation.py and cryptolog.py, and the end-of-day selectors *)
(* of crypto_recommendation.py.                                            *)
(*                                                                         *)
(* Money is a Python float in the source.  The model computes with exact   *)
(* decimals (sign, digits, scale), so every product and difference is the  *)
(* real-number result of the same expression, evaluated in the same order. *)
(* Percentage changes are whole percents.                                  *)
(***************************************************************************)
EXTENDS Integers, Sequences, FiniteSets, TLC

(***************************************************************************)
(* Exact decimals.  A decimal is [neg, dig, sc]: dig is the magnitude's    *)
(* digits, least significant first, and the value is                       *)
(* (-1)^neg * dig / 10^sc.  Every operator returns the canonical form: no  *)
(* high zero digit, no low zero digit while sc > 0, and zero is            *)
(* [FALSE, <<>>, 0]; so two decimals are equal as numbers iff they are     *)
(* equal as records.                                                       *)
(***************************************************************************)
RECURSIVE StripHigh(_)
StripHigh(d) ==
    IF Len(d) = 0 THEN d
    ELSE IF d[Len(d)] = 0 THEN StripHigh(SubSeq(d, 1, Len(d) - 1))
    ELSE d

RECURSIVE StripLow(_, _)
StripLow(d, sc) ==
    IF sc > 0 /\ Len(d) > 0 /\ d[1] = 0 THEN StripLow(Tail(d), sc - 1)
    ELSE [dig |-> d, sc |-> sc]

Norm(neg, d, sc) ==
    LET h == StripHigh(d)
        l == StripLow(h, sc)
    IN  IF Len(h) = 0 THEN [neg |-> FALSE, dig |-> <<>>, sc |-> 0]
        ELSE [neg |-> neg, dig |-> l.dig, sc |-> l.sc]

RECURSIVE NatDigits(_)
NatDigits(n) == IF n = 0 THEN <<>> ELSE <<n % 10>> \o NatDigits(n \div 10)

Abs(i) == IF i < 0 THEN -i ELSE i

\* The decimal i / 10^sc.
DecOf(i, sc) == Norm(i < 0, NatDigits(Abs(i)), sc)

DecZero == DecOf(0, 0)

Zeros(k) == [i \in 1..k |-> 0]

Digit(d, i) == IF i <= Len(d) THEN d[i] ELSE 0

\* Four digits at a time: the number digits i .. i + 3 stand for, and the
\* four low digits of a number.
Limb(d, i) ==
    Digit(d, i) + 10 * Digit(d, i + 1) + 100 * Digit(d, i + 2)
        + 1000 * Digit(d, i + 3)

LimbDigits(t) == <<t % 10, (t \div 10) % 10, (t \div 100) % 10, (t \div 1000) % 10>>

MaxOf(a, b) == IF a >= b THEN a ELSE b

RECURSIVE MagAddFrom(_, _, _, _)
MagAddFrom(a, b, i, carry) ==
    IF i > MaxOf(Len(a), Len(b)) THEN NatDigits(carry)
    ELSE LET t == Limb(a, i) + Limb(b, i) + carry
         IN  LimbDigits(t) \o MagAddFrom(a, b, i + 4, t \div 10000)

MagAdd(a, b) == MagAddFrom(a, b, 1, 0)

\* a - b for magnitudes with a >= b.
RECURSIVE MagSubFrom(_, _, _, _)
MagSubFrom(a, b, i, borrow) ==
    IF i > Len(a) THEN <<>>
    ELSE LET t == Limb(a, i) - Limb(b, i) - borrow
         IN  IF t < 0 THEN LimbDigits(t + 10000) \o MagSubFrom(a, b, i + 4, 1)
             ELSE LimbDigits(t) \o MagSubFrom(a, b, i + 4, 0)

MagSub(a, b) == MagSubFrom(a, b, 1, 0)

\* -1, 0, 1 as a < b, a = b, a > b, comparing from the highest digits down.
RECURSIVE MagCmpFrom(_, _, _)
MagCmpFrom(a, b, i) ==
    IF i < 1 THEN 0
    ELSE IF Limb(a, i) < Limb(b, i) THEN -1
    ELSE IF Limb(a, i) > Limb(b, i) THEN 1
    ELSE MagCmpFrom(a, b, i - 4)

MagCmp(a, b) ==
    LET n == MaxOf(Len(a), Len(b))
    IN  MagCmpFrom(a, b, n - ((n - 1) % 4))

RECURSIVE MagMulSmallFrom(_, _, _, _)
MagMulSmallFrom(a, m, i, carry) ==
    IF i > Len(a) THEN NatDigits(carry)
    ELSE LET t == Limb(a, i) * m + carry
         IN  LimbDigits(t) \o MagMulSmallFrom(a, m, i + 4, t \div 10000)

RECURSIVE MagMulFrom(_, _, _)
MagMulFrom(a, b, i) ==
    IF i > Len(b) THEN <<>>
    ELSE MagAdd(Zeros(i - 1) \o MagMulSmallFrom(a, b[i], 1, 0),
                MagMulFrom(a, b, i + 1))

MagMul(a, b) == MagMulFrom(a, b, 1)

DecNeg(x) == Norm(~x.neg, x.dig, x.sc)

DecAdd(x, y) ==
    LET sc == MaxOf(x.sc, y.sc)
        a  == Zeros(sc - x.sc) \o x.dig
        b  == Zeros(sc - y.sc) \o y.dig
    IN  IF x.neg = y.neg THEN Norm(x.neg, MagAdd(a, b), sc)
        ELSE IF MagCmp(a, b) >= 0 THEN Norm(x.neg, MagSub(a, b), sc)
        ELSE Norm(y.neg, MagSub(b, a), sc)

DecSub(x, y) == DecAdd(x, DecNeg(y))

\* The number a magnitude of at most 5 digits stands for.
RECURSIVE MagNat(_, _)
MagNat(a, i) == IF i > Len(a) THEN 0 ELSE a[i] + 10 * MagNat(a, i + 1)

\* Long multiplication; a factor that fits a machine integer is multiplied in
\* one pass.
MagProduct(a, b) ==
    IF Len(b) <= 5 THEN MagMulSmallFrom(a, MagNat(b, 1), 1, 0)
    ELSE IF Len(a) <= 5 THEN MagMulSmallFrom(b, MagNat(a, 1), 1, 0)
    ELSE MagMul(a, b)

DecMul(x, y) == Norm(x.neg # y.neg, MagProduct(x.dig, y.dig), x.sc + y.sc)

DecLess(x, y) == DecSub(x, y).neg

\* Python's max(a, b): the first argument unless the second is greater.
DecMax(x, y) == IF DecLess(x, y) THEN y ELSE x


(***************************************************************************)
(* The fee model of invest.py.                                             *)
(***************************************************************************)
\* 0.1 / 100
SWAP_FEE_PERCENTAGE == DecMul(DecOf(1, 1), DecOf(1, 2))

FeeIds ==
    {"monero", "nano", "tron", "solana", "matic-network", "litecoin",
     "bitcoin-cash", "bitcoin"}

TRANSACTION_FEES ==
    [c \in FeeIds |->
        CASE c = "monero" -> DecOf(5, 2)
          [] c = "nano" -> DecOf(0, 1)
          [] c = "tron" -> DecOf(1, 2)
          [] c = "solana" -> DecOf(25, 5)
          [] c = "matic-network" -> DecOf(1, 3)
          [] c = "litecoin" -> DecOf(3, 2)
          [] c = "bitcoin-cash" -> DecOf(5, 3)
          [] c = "bitcoin" -> DecOf(200, 2)]

apply_swap_fee_NoFee(value) == value

apply_swap_fee_Rate(value) == DecMul(value, SWAP_FEE_PERCENTAGE)

apply_swap_fee(value) ==
    DecMul(value, DecSub(DecOf(1, 0), SWAP_FEE_PERCENTAGE))

apply_transaction_fee_Floored(value, crypto) ==
    LET fee == IF crypto \in FeeIds THEN TRANSACTION_FEES[crypto] ELSE DecZero
    IN  DecMax(DecSub(value, fee), DecZero)

\* TRANSACTION_FEES.get(crypto, 0)
apply_transaction_fee(value, crypto) ==
    LET fee == IF crypto \in FeeIds THEN TRANSACTION_FEES[crypto] ELSE DecZero
    IN  DecSub(value, fee)

(***************************************************************************)
(* Mappings.  A Python dict keeps insertion order, so a mapping from asset *)
(* to records is a sequence of [id, recs] entries with distinct ids, and a *)
(* dict of numbers a sequence of [id, v] entries.                          *)
(***************************************************************************)
Ids(m) == {m[i].id : i \in 1..Len(m)}

IndexOf(m, id) == CHOOSE i \in 1..Len(m) : m[i].id = id

Get(m, id) == m[IndexOf(m, id)]

\* max(d, key=d.get): the first key, in iteration order, whose value no later
\* one exceeds; "best" is replaced only by a strictly greater value.
RECURSIVE PyMaxFrom(_, _, _)
PyMaxFrom(kv, i, best) ==
    IF i > Len(kv) THEN kv[best].id
    ELSE IF kv[i].v > kv[best].v THEN PyMaxFrom(kv, i + 1, i)
    ELSE PyMaxFrom(kv, i + 1, best)

PyMax_Last(kv) ==
    LET i == CHOOSE i \in 1..Len(kv) :
                 /\ \A j \in 1..Len(kv) : kv[j].v <= kv[i].v
                 /\ \A j \in (i + 1)..Len(kv) : kv[j].v < kv[i].v
    IN  kv[i].id

PyMax(kv) == PyMaxFrom(kv, 2, 1)

RECURSIVE PyMinFrom(_, _, _)
PyMinFrom(kv, i, best) ==
    IF i > Len(kv) THEN kv[best].id
    ELSE IF kv[i].v < kv[best].v THEN PyMinFrom(kv, i + 1, i)
    ELSE PyMinFrom(kv, i + 1, best)

PyMin(kv) == PyMinFrom(kv, 2, 1)

(***************************************************************************)
(* calculate_portfolio_value: the sum, over cryptos, of the share          *)
(* portfolio_value / split after the asset's percentage change, the swap   *)
(* fee and the transaction fee, each share floored at zero.  Every call in *)
(* the source passes split=1.                                              *)
(***************************************************************************)
OnePlusPercent(percentage_change) ==
    DecAdd(DecOf(1, 0), DecOf(percentage_change, 2))

PostTradeValue_NoSwapFee(portfolio_value, percentage_change, crypto) ==
    DecMax(apply_transaction_fee(
               DecMul(portfolio_value, OnePlusPercent(percentage_change)),
               crypto),
           DecZero)

PostTradeValue_NoFloor(portfolio_value, percentage_change, crypto) ==
    apply_transaction_fee(
        apply_swap_fee(DecMul(portfolio_value,
                              OnePlusPercent(percentage_change))),
        crypto)

PostTradeValue(portfolio_value, percentage_change, crypto) ==
    DecMax(apply_transaction_fee(
               apply_swap_fee(DecMul(portfolio_value,
                                     OnePlusPercent(percentage_change))),
               crypto),
           DecZero)

RECURSIVE DailyValueFrom(_, _, _, _)
DailyValueFrom(portfolio_value, changes_as_percentages, cryptos, i) ==
    IF i > Len(cryptos) THEN DecZero
    ELSE DecAdd(PostTradeValue(portfolio_value,
                               Get(changes_as_percentages, cryptos[i]).v,
                               cryptos[i]),
                DailyValueFrom(portfolio_value, changes_as_percentages,
                               cryptos, i + 1))

calculate_portfolio_value(portfolio_value, changes_as_percentages, cryptos) ==
    DailyValueFrom(portfolio_value, changes_as_percentages, cryptos, 1)


(***************************************************************************)
(* Dates.  A calendar date is its number of days since 1 Jan 1970 (a       *)
(* Thursday).  strftime("%a %d %b %Y") writes the weekday name and the     *)
(* day, month and year; strptime with the same format reads day, month and *)
(* year back and does not use the weekday name.                            *)
(***************************************************************************)
Weekday(date) == (date + 3) % 7

strftime(date) == [a |-> Weekday(date), dmy |-> date]

strptime(text) == text.dmy

timedelta(d) == d * 86400

(***************************************************************************)
(* The strategy simulators of invest.py.  One operator per loop body: it   *)
(* takes the state before day `day` and gives the state after it, or the   *)
(* exception the body raises.                                              *)
(***************************************************************************)
NonBitcoin_All(data) == data

NonBitcoin(data) == SelectSeq(data, LAMBDA e : e.id # "bitcoin")

\* for day in range(days)
LoopContinues_Inclusive(day, days) == day <= days

LoopContinues(day, days) == day < days

\* {crypto: data[crypto][day]["change"] for crypto in data if crypto != "bitcoin"}
DayChanges(data, day) ==
    LET nb == NonBitcoin(data)
    IN  [i \in 1..Len(nb) |-> [id |-> nb[i].id, v |-> nb[i].recs[day + 1].change]]

\* data[crypto][day] raises IndexError for a list of at most `day` records.
HasDay(data, day) ==
    LET nb == NonBitcoin(data)
    IN  \A i \in 1..Len(nb) : Len(nb[i].recs) > day

Raise_Swallowed(portfolio_value, held, exception) ==
    [portfolio_value |-> portfolio_value, held |-> held, raised |-> ""]

Raise(portfolio_value, held, exception) ==
    [portfolio_value |-> portfolio_value, held |-> held, raised |-> exception]

EndOfDay(portfolio_value, held) ==
    [portfolio_value |-> portfolio_value, held |-> held, raised |-> ""]

highest_day_ChargeFirstDay(data, portfolio_value, held, day) ==
    IF ~HasDay(data, day) THEN Raise(portfolio_value, held, "IndexError")
    ELSE IF Len(NonBitcoin(data)) = 0 THEN Raise(portfolio_value, held, "ValueError")
    ELSE LET changes == DayChanges(data, day)
             top_performer == PyMax(changes)
         IN  EndOfDay(calculate_portfolio_value(
                          portfolio_value, changes,
                          <<IF held = "" THEN top_performer ELSE held>>),
                      top_performer)

highest_day_PreviousDayChange(data, portfolio_value, held, day) ==
    IF ~HasDay(data, day) THEN Raise(portfolio_value, held, "IndexError")
    ELSE IF Len(NonBitcoin(data)) = 0 THEN Raise(portfolio_value, held, "ValueError")
    ELSE LET changes == DayChanges(data, day)
             top_performer == PyMax(changes)
         IN  EndOfDay(IF held = "" THEN portfolio_value
                      ELSE calculate_portfolio_value(
                               portfolio_value, DayChanges(data, day - 1),
                               <<held>>),
                      top_performer)

highest_day(data, portfolio_value, held, day) ==
    IF ~HasDay(data, day) THEN Raise(portfolio_value, held, "IndexError")
    ELSE IF Len(NonBitcoin(data)) = 0 THEN Raise(portfolio_value, held, "ValueError")
    ELSE LET changes == DayChanges(data, day)
             top_performer == PyMax(changes)
         IN  EndOfDay(IF held = "" THEN portfolio_value
                      ELSE calculate_portfolio_value(portfolio_value, changes,
                                                     <<held>>),
                      top_performer)

lowest_day(data, portfolio_value, held, day) ==
    IF ~HasDay(data, day) THEN Raise(portfolio_value, held, "IndexError")
    ELSE IF Len(NonBitcoin(data)) = 0 THEN Raise(portfolio_value, held, "ValueError")
    ELSE LET changes == DayChanges(data, day)
             bottom_performer == PyMin(changes)
         IN  EndOfDay(IF held = "" THEN portfolio_value
                      ELSE calculate_portfolio_value(portfolio_value, changes,
                                                     <<held>>),
                      bottom_performer)

\* sum(crypto_data[crypto][d]["change"] for d in range(start_day, day + 1))
RECURSIVE SumChanges(_, _, _)
SumChanges(recs, d, day) ==
    IF d > day THEN 0 ELSE recs[d + 1].change + SumChanges(recs, d + 1, day)

WindowStart_Unclipped(day) == 0

\* start_day = max(0, day - 2)
WindowStart(day) == MaxOf(0, day - 2)

CumulativeChanges(data, day) ==
    LET nb == NonBitcoin(data)
    IN  [i \in 1..Len(nb) |->
            [id |-> nb[i].id, v |-> SumChanges(nb[i].recs, WindowStart(day), day)]]

\* {crypto: crypto_data[crypto][day]["change"] for crypto in [asset]}
OneChange(data, asset, day) ==
    <<[id |-> asset, v |-> Get(data, asset).recs[day + 1].change]>>

wave_day(data, portfolio_value, held, day) ==
    IF ~HasDay(data, day) THEN Raise(portfolio_value, held, "IndexError")
    ELSE IF Len(NonBitcoin(data)) = 0 THEN Raise(portfolio_value, held, "ValueError")
    ELSE LET top_performer == PyMax(CumulativeChanges(data, day))
             carried == IF held # ""
                        THEN calculate_portfolio_value(
                                 portfolio_value, OneChange(data, held, day),
                                 <<held>>)
                        ELSE portfolio_value
         IN  EndOfDay(calculate_portfolio_value(
                          carried, OneChange(data, top_performer, day),
                          <<top_performer>>),
                      top_performer)

\* strategy_functions.get(strategy, highest_change_trading_strategy)
strategy_day(strategy, data, portfolio_value, held, day) ==
    CASE strategy = "lowest" -> lowest_day(data, portfolio_value, held, day)
      [] strategy = "wave" -> wave_day(data, portfolio_value, held, day)
      [] OTHER -> highest_day(data, portfolio_value, held, day)

\* A whole call: the loop over range(days), stopped by the first exception.
RECURSIVE RunFrom(_, _, _, _, _, _)
RunFrom(strategy, data, portfolio_value, held, day, days) ==
    IF ~LoopContinues(day, days) THEN EndOfDay(portfolio_value, held)
    ELSE LET r == strategy_day(strategy, data, portfolio_value, held, day)
         IN  IF r.raised # "" THEN r
             ELSE RunFrom(strategy, data, r.portfolio_value, r.held, day + 1, days)

RunStrategy(strategy, data, initial_btc, days) ==
    RunFrom(strategy, data, initial_btc, "", 0, days)


(***************************************************************************)
(* State.  pc is the position of the running call, result its return value *)
(* (<<>> while there is none, and for a call that returns None) and raised *)
(* the exception that ended it ("" for none).                              *)
(***************************************************************************)
VARIABLES pc, result, raised

\* A strategy call: its arguments and the locals of its loop.
VARIABLES strategy, crypto_data, initial_btc, days, day, portfolio_value,
          top_performer_from_yesterday

\* The arguments of a fee function.
VARIABLES value, crypto

\* The argument of a selector, the mapping as it was when the call began, and
\* the clock reading of the selector that reads the clock.
VARIABLES weekly_data, given, utcnow

\* A fetcher call: which of the three fetchers runs, its arguments, the clock
\* it reads, its position in its loops and the mapping it is building; the
\* response to the request just made, the number of samples the price service
\* may still send, the number of requests made, the assets for which a
\* request succeeded with a non-empty price list and those for which one
\* failed.
VARIABLES fetcher, crypto_ids, num_weeks, today, utc_offset, start_date,
          end_date, week, next_id, weekly_changes, response, samples_left,
          requests_made, succeeded, failed

\* A call of simulate_weekly_investments: its arguments (chosen is the
\* strategy argument, month_ids the crypto_ids argument), the date and the
\* week of its loop, the fetch result of the week just processed, the total,
\* the profit once it is computed, and the value each processed week added.
VARIABLES chosen, month_ids, initial_weekly_investment, current_date,
          month_week, fetched, total_portfolio_value, profit, contributions

strategy_vars ==
    <<strategy, crypto_data, initial_btc, days, day, portfolio_value,
      top_performer_from_yesterday>>

fee_vars == <<value, crypto>>

select_vars == <<weekly_data, given, utcnow>>

fetch_vars ==
    <<fetcher, crypto_ids, num_weeks, today, utc_offset, start_date, end_date,
      week, next_id, weekly_changes, response, samples_left, requests_made,
      succeeded, failed>>

weekly_vars ==
    <<chosen, month_ids, initial_weekly_investment, current_date, month_week,
      fetched, total_portfolio_value, profit, contributions>>

vars ==
    <<pc, result, raised, strategy_vars, fee_vars, select_vars, fetch_vars,
      weekly_vars>>

StrategyIdle ==
    /\ strategy = ""
    /\ crypto_data = <<>>
    /\ initial_btc = DecZero
    /\ days = 0
    /\ day = 0
    /\ portfolio_value = DecZero
    /\ top_performer_from_yesterday = ""

FeeIdle == value = DecZero /\ crypto = ""

SelectIdle == weekly_data = <<>> /\ given = <<>> /\ utcnow = 0

NoResponse == [id |-> "", kind |-> "", prices |-> <<>>]

FetchIdle ==
    /\ fetcher = ""
    /\ crypto_ids = <<>>
    /\ num_weeks = 0
    /\ today = 0
    /\ utc_offset = 0
    /\ start_date = 0
    /\ end_date = 0
    /\ week = 0
    /\ next_id = 0
    /\ weekly_changes = <<>>
    /\ response = NoResponse
    /\ samples_left = 0
    /\ requests_made = 0
    /\ succeeded = {}
    /\ failed = {}

WeeklyIdle ==
    /\ chosen = ""
    /\ month_ids = <<>>
    /\ initial_weekly_investment = DecZero
    /\ current_date = 0
    /\ month_week = 0
    /\ fetched = <<>>
    /\ total_portfolio_value = DecZero
    /\ profit = <<>>
    /\ contributions = <<>>

(***************************************************************************)
(* Strategy calls.  The argument crypto_data is read one day at a time:    *)
(* the body of day d reads no record after index d, so the records of day  *)
(* d are drawn when the loop reaches d.  An asset whose list ends before   *)
(* day d gets no record then, and the body raises.                         *)
(***************************************************************************)
MaxDays == 4

Strategies == {"highest", "lowest", "wave"}

IdLists == {<<>>, <<"bitcoin">>, <<"monero">>, <<"bitcoin", "nano", "litecoin">>}

ChangeChoices(id) ==
    CASE id = "monero" -> {-5, 2, 10}
      [] id = "nano" -> {2, 10}
      [] id = "litecoin" -> {-5, 10}
      [] OTHER -> {50}

InitialValues == {DecOf(100, 0), DecOf(4, 2)}

Record(date, change, end_of_day_value) ==
    [date |-> strftime(date), change |-> change,
     end_of_day_value |-> end_of_day_value]

EmptySeries(ids) == [i \in 1..Len(ids) |-> [id |-> ids[i], recs |-> <<>>]]

\* The records of one day: a change for every asset; `short` is the index of
\* the asset whose list has ended (0 for none).
RECURSIVE ChangeRows(_, _)
ChangeRows(data, i) ==
    IF i > Len(data) THEN {<<>>}
    ELSE {<<c>> \o rest : c \in ChangeChoices(data[i].id),
                          rest \in ChangeRows(data, i + 1)}

Columns(data) ==
    {[f |-> f, short |-> 0] : f \in ChangeRows(data, 1)}
    \cup
    {[f |-> [i \in 1..Len(data) |-> CHOOSE c \in ChangeChoices(data[i].id) : TRUE],
      short |-> k] : k \in {i \in 1..Len(data) : data[i].id # "bitcoin"}}

Reveal(data, col, d) ==
    [i \in 1..Len(data) |->
        [id |-> data[i].id,
         recs |-> IF col.short = i THEN data[i].recs
                  ELSE Append(data[i].recs, Record(d, col.f[i], 1))]]

StrategyInit ==
    /\ pc = "loop"
    /\ result = <<>>
    /\ raised = ""
    /\ strategy \in Strategies
    /\ \E ids \in IdLists : crypto_data = EmptySeries(ids)
    /\ initial_btc \in InitialValues
    /\ days \in 0..MaxDays
    /\ day = 0
    /\ portfolio_value = initial_btc
    /\ top_performer_from_yesterday = ""
    /\ FeeIdle
    /\ SelectIdle
    /\ FetchIdle
    /\ WeeklyIdle

\* One iteration of the loop of the running strategy.
LoopBody ==
    /\ pc = "loop"
    /\ LoopContinues(day, days)
    /\ \E col \in Columns(crypto_data) :
          LET data == Reveal(crypto_data, col, day)
              r == strategy_day(strategy, data, portfolio_value,
                                top_performer_from_yesterday, day)
          IN  /\ crypto_data' = data
              /\ IF r.raised # ""
                 THEN /\ pc' = "raised"
                      /\ raised' = r.raised
                      /\ UNCHANGED <<day, portfolio_value,
                                     top_performer_from_yesterday>>
                 ELSE /\ portfolio_value' = r.portfolio_value
                      /\ top_performer_from_yesterday' = r.held
                      /\ day' = day + 1
                      /\ UNCHANGED <<pc, raised>>
    /\ UNCHANGED <<result, strategy, initial_btc, days, fee_vars, select_vars,
                   fetch_vars, weekly_vars>>

HighestDay == strategy = "highest" /\ LoopBody

LowestDay == strategy = "lowest" /\ LoopBody

WaveDay == strategy = "wave" /\ LoopBody

\* return portfolio_value
StrategyReturn ==
    /\ pc = "loop"
    /\ ~LoopContinues(day, days)
    /\ pc' = "returned"
    /\ result' = <<portfolio_value>>
    /\ UNCHANGED <<raised, strategy_vars, fee_vars, select_vars,
                   fetch_vars, weekly_vars>>

StrategyNext == HighestDay \/ LowestDay \/ WaveDay \/ StrategyReturn

SpecStrategy == StrategyInit /\ [][StrategyNext]_vars


(***************************************************************************)
(* Claims about the strategy simulators, checked under SpecStrategy.       *)
(***************************************************************************)
\* The leader the running strategy selects on day 0: the first asset other
\* than bitcoin with the greatest (lowest: the least) day-0 change.
DayZeroLeader ==
    LET changes == DayChanges(crypto_data, 0)
        best == CHOOSE i \in 1..Len(changes) :
                    /\ \A j \in 1..Len(changes) :
                          IF strategy = "lowest" THEN changes[i].v <= changes[j].v
                          ELSE changes[i].v >= changes[j].v
                    /\ \A j \in 1..(i - 1) : changes[j].v # changes[i].v
    IN  changes[best].id

\* C1: in every strategy simulator a run with days=1 returns exactly the
\* initial value (day 0 applies no fee and no percentage change) and ends with
\* the day-0 leader held.
C1_FirstDayIsFree ==
    (pc = "returned" /\ days = 1) =>
        /\ result = <<initial_btc>>
        /\ top_performer_from_yesterday = DayZeroLeader

\* The scenario of C2: the highest strategy over a single asset whose daily
\* changes are +10, -5, +2, from 100, for 3 days.
C2Changes == <<10, -5, 2>>

C2Scenario ==
    /\ strategy = "highest"
    /\ days = 3
    /\ initial_btc = DecOf(100, 0)
    /\ Len(crypto_data) = 1
    /\ crypto_data[1].id # "bitcoin"
    /\ \A d \in 1..Len(crypto_data[1].recs) :
          crypto_data[1].recs[d].change = C2Changes[d]

C2Fee == TRANSACTION_FEES[crypto_data[1].id]

\* v * (1 + change/100) * 0.999 - fee
C2Applied(v, change) ==
    DecSub(DecMul(DecMul(v, DecOf(100 + change, 2)), DecOf(999, 3)), C2Fee)

\* C2 as stated: after day 0 the value is 100 and the asset is held; after day
\* 1 it is 100*1.10*0.999 - fee, the +10% change being the one applied on day
\* 1; after day 2 the -5% change and the fees have been applied to that.
C2_TenPercentOnDayOne ==
    C2Scenario =>
        /\ day = 1 => /\ portfolio_value = DecOf(100, 0)
                      /\ top_performer_from_yesterday = crypto_data[1].id
        /\ day = 2 => portfolio_value = C2Applied(DecOf(100, 0), 10)
        /\ day = 3 =>
              portfolio_value = C2Applied(C2Applied(DecOf(100, 0), 10), -5)

\* C2 as amended: after day 0 the value is 100 and the asset is held; after
\* day 1 it is 100*0.95*0.999 - fee, the change applied on day 1 being day 1's
\* own -5%; after day 2 the +2% change and the fees have been applied to that.
\* The +10% of day 0 is never applied.  For monero (fee 0.05) the values are
\* 94.855 and 96.6053479.
C2_DayOneAppliesDayOneChange ==
    C2Scenario =>
        /\ day = 1 => /\ portfolio_value = DecOf(100, 0)
                      /\ top_performer_from_yesterday = crypto_data[1].id
        /\ day = 2 => /\ portfolio_value = C2Applied(DecOf(100, 0), -5)
                      /\ crypto_data[1].id = "monero" =>
                            portfolio_value = DecOf(94855, 3)
        /\ day = 3 =>
              /\ portfolio_value = C2Applied(C2Applied(DecOf(100, 0), -5), 2)
              /\ crypto_data[1].id = "monero" =>
                    portfolio_value = DecOf(966053479, 7)
              /\ pc = "returned" => result = <<portfolio_value>>

C2_Witness ==
    /\ C2Scenario
    /\ day = 3
    /\ pc = "returned"
    /\ result = <<DecOf(966053479, 7)>>

\* C3: a run with days=0 returns the initial portfolio value unchanged for any
\* input data, the empty mapping included; it selects no leader and raises no
\* error.
C3_ZeroDaysReturnsInitial ==
    days = 0 =>
        /\ pc # "raised"
        /\ raised = ""
        /\ top_performer_from_yesterday = ""
        /\ portfolio_value = initial_btc
        /\ pc = "returned" => result = <<initial_btc>>

C3_Witness ==
    /\ days = 0
    /\ pc = "returned"
    /\ strategy = "wave"
    /\ crypto_data = <<>>
    /\ result = <<initial_btc>>


(***************************************************************************)
(* Calls of the fee functions: Init draws the arguments, one action per    *)
(* function applies it.                                                    *)
(***************************************************************************)
MaxFeeValue == 100

\* 0 .. MaxFeeValue and the same in hundredths.
FeeValues == {DecOf(n, sc) : n \in 0..MaxFeeValue, sc \in {0, 2}}

FeeCryptos == FeeIds \cup {"dogecoin"}

FeeInit ==
    /\ pc = "call"
    /\ result = <<>>
    /\ raised = ""
    /\ value \in FeeValues
    /\ crypto \in FeeCryptos
    /\ StrategyIdle
    /\ SelectIdle
    /\ FetchIdle
    /\ WeeklyIdle

CallApplySwapFee ==
    /\ pc = "call"
    /\ pc' = "apply_swap_fee"
    /\ result' = <<apply_swap_fee(value)>>
    /\ UNCHANGED <<raised, strategy_vars, fee_vars, select_vars,
                   fetch_vars, weekly_vars>>

CallApplyTransactionFee ==
    /\ pc = "call"
    /\ pc' = "apply_transaction_fee"
    /\ result' = <<apply_transaction_fee(value, crypto)>>
    /\ UNCHANGED <<raised, strategy_vars, fee_vars, select_vars,
                   fetch_vars, weekly_vars>>

FeeNext == CallApplySwapFee \/ CallApplyTransactionFee

SpecFee == FeeInit /\ [][FeeNext]_vars

\* C7: apply_swap_fee(v) = v * (1 - 0.001) and apply_transaction_fee(v, asset)
\* = v - FLAT_FEE[asset], the fee being 0 for an asset absent from the table;
\* so apply_swap_fee(100) = 99.9, apply_transaction_fee(100, nano) = 100,
\* apply_transaction_fee(100, bitcoin) = 98 and apply_transaction_fee(v,
\* unknown) = v.  The fees are written out here as the source's table has them.
C7Fee ==
    CASE crypto = "monero" -> DecOf(5, 2)
      [] crypto = "nano" -> DecZero
      [] crypto = "tron" -> DecOf(1, 2)
      [] crypto = "solana" -> DecOf(25, 5)
      [] crypto = "matic-network" -> DecOf(1, 3)
      [] crypto = "litecoin" -> DecOf(3, 2)
      [] crypto = "bitcoin-cash" -> DecOf(5, 3)
      [] crypto = "bitcoin" -> DecOf(2, 0)
      [] OTHER -> DecZero

C7_FeeModel ==
    /\ pc = "apply_swap_fee" =>
          /\ DecAdd(result[1], DecMul(value, DecOf(1, 3))) = value
          /\ value = DecOf(100, 0) => result = <<DecOf(999, 1)>>
    /\ pc = "apply_transaction_fee" =>
          /\ DecAdd(result[1], C7Fee) = value
          /\ crypto \notin FeeIds => result = <<value>>
          /\ (value = DecOf(100, 0) /\ crypto = "nano") =>
                result = <<DecOf(100, 0)>>
          /\ (value = DecOf(100, 0) /\ crypto = "bitcoin") =>
                result = <<DecOf(98, 0)>>

C7_Witness ==
    /\ pc = "apply_transaction_fee"
    /\ value = DecOf(100, 0)
    /\ crypto = "bitcoin"
    /\ result = <<DecOf(98, 0)>>


(***************************************************************************)
(* The end-of-day selectors of crypto_recommendation.py.  None and         *)
(* float('-inf') / float('inf') are the empty sequence, a value v is <<v>>.*)
(***************************************************************************)
\* The first loop over one asset's records: the latest date seen so far.
RECURSIVE LatestInRecords(_, _, _)
LatestInRecords(recs, j, latest_date) ==
    IF j > Len(recs) THEN latest_date
    ELSE LET date == strptime(recs[j].date)
         IN  LatestInRecords(recs, j + 1,
                             IF latest_date = <<>> \/ date > latest_date[1]
                             THEN <<date>> ELSE latest_date)

LatestDate_FirstAssetOnly(data, i, latest_date) ==
    IF i > Len(data) THEN latest_date
    ELSE LatestInRecords(data[i].recs, 1, latest_date)

RECURSIVE LatestDate(_, _, _)
LatestDate(data, i, latest_date) ==
    IF i > Len(data) THEN latest_date
    ELSE LatestDate(data, i + 1, LatestInRecords(data[i].recs, 1, latest_date))

\* The inner loop with its break: the index of the first entry whose date
\* string is `text`, 0 when there is none.
RECURSIVE FirstOn(_, _, _)
FirstOn(recs, j, text) ==
    IF j > Len(recs) THEN 0
    ELSE IF recs[j].date = text THEN j
    ELSE FirstOn(recs, j + 1, text)

Exceeds_OrEqual(v, highest_value) == highest_value = <<>> \/ v >= highest_value[1]

\* entry["end_of_day_value"] > highest_value
Exceeds(v, highest_value) == highest_value = <<>> \/ v > highest_value[1]

Below_OrEqual(v, lowest_value) == lowest_value = <<>> \/ v <= lowest_value[1]

\* entry["end_of_day_value"] < lowest_value
Below(v, lowest_value) == lowest_value = <<>> \/ v < lowest_value[1]

RECURSIVE HighestScan(_, _, _, _, _)
HighestScan(data, i, text, highest_value, highest_crypto) ==
    IF i > Len(data) THEN highest_crypto
    ELSE LET j == FirstOn(data[i].recs, 1, text)
         IN  IF j > 0 /\ Exceeds(data[i].recs[j].end_of_day_value, highest_value)
             THEN HighestScan(data, i + 1, text,
                              <<data[i].recs[j].end_of_day_value>>, <<data[i].id>>)
             ELSE HighestScan(data, i + 1, text, highest_value, highest_crypto)

RECURSIVE LowestScan(_, _, _, _, _)
LowestScan(data, i, text, lowest_value, lowest_crypto) ==
    IF i > Len(data) THEN lowest_crypto
    ELSE LET j == FirstOn(data[i].recs, 1, text)
         IN  IF j > 0 /\ Below(data[i].recs[j].end_of_day_value, lowest_value)
             THEN LowestScan(data, i + 1, text,
                             <<data[i].recs[j].end_of_day_value>>, <<data[i].id>>)
             ELSE LowestScan(data, i + 1, text, lowest_value, lowest_crypto)

NoData == "ValueError: No data available."

NoDataForDay == "ValueError: No data available for the most recent day."

Returns(v) == [result |-> v, raised |-> ""]

Raises(exception) == [result |-> <<>>, raised |-> exception]

get_crypto_with_highest_end_of_day_value(data) ==
    LET latest_date == LatestDate(data, 1, <<>>)
    IN  IF latest_date = <<>> THEN Raises(NoData)
        ELSE LET highest_crypto ==
                     HighestScan(data, 1, strftime(latest_date[1]), <<>>, <<>>)
             IN  IF highest_crypto = <<>> THEN Raises(NoDataForDay)
                 ELSE Returns(highest_crypto)

get_crypto_with_lowest_end_of_day_value(data) ==
    LET latest_date == LatestDate(data, 1, <<>>)
    IN  IF latest_date = <<>> THEN Raises(NoData)
        ELSE LET lowest_crypto ==
                     LowestScan(data, 1, strftime(latest_date[1]), <<>>, <<>>)
             IN  IF lowest_crypto = <<>> THEN Raises(NoDataForDay)
                 ELSE Returns(lowest_crypto)

(***************************************************************************)
(* The selector over the change since three days ago.  most_recent_date is *)
(* assigned once before the loop over the assets and is carried from one   *)
(* asset to the next; the two prices and latest_date start as None for     *)
(* every asset.                                                            *)
(***************************************************************************)
\* date == three_days_prior
OnPriorDate(date, three_days_prior) == date = three_days_prior

\* The loop over one asset's entries; `scan` holds three_days_prior_price,
\* latest_price and most_recent_date.
RECURSIVE EntryScan(_, _, _, _)
EntryScan(recs, j, three_days_prior, scan) ==
    IF j > Len(recs) THEN scan
    ELSE LET date == strptime(recs[j].date)
             price == IF OnPriorDate(date, three_days_prior)
                      THEN <<recs[j].end_of_day_value>>
                      ELSE scan.three_days_prior_price
             newer == scan.most_recent_date = <<>>
                         \/ date > scan.most_recent_date[1]
         IN  EntryScan(recs, j + 1, three_days_prior,
                       [three_days_prior_price |-> price,
                        latest_price |->
                            IF newer THEN <<recs[j].end_of_day_value>>
                            ELSE scan.latest_price,
                        most_recent_date |->
                            IF newer THEN <<date>> ELSE scan.most_recent_date])

\* ((latest_price - three_days_prior_price) / three_days_prior_price) * 100;
\* the closing values of the model divide every such product, so the
\* quotient is the exact value.
percentage_change(three_days_prior_price, latest_price) ==
    ((latest_price - three_days_prior_price) * 100) \div three_days_prior_price

\* The loop over the assets.
RECURSIVE LargestScan(_, _, _, _, _, _)
LargestScan(data, i, three_days_prior, most_recent_date, largest_percentage_change, largest_crypto) ==
    IF i > Len(data) THEN largest_crypto
    ELSE LET scan == EntryScan(data[i].recs, 1, three_days_prior,
                               [three_days_prior_price |-> <<>>,
                                latest_price |-> <<>>,
                                most_recent_date |-> most_recent_date])
             both == scan.three_days_prior_price # <<>>
                        /\ scan.latest_price # <<>>
         IN  IF both /\ Exceeds(percentage_change(scan.three_days_prior_price[1],
                                                  scan.latest_price[1]),
                                largest_percentage_change)
             THEN LargestScan(data, i + 1, three_days_prior,
                              scan.most_recent_date,
                              <<percentage_change(scan.three_days_prior_price[1],
                                                  scan.latest_price[1])>>,
                              <<data[i].id>>)
             ELSE LargestScan(data, i + 1, three_days_prior,
                              scan.most_recent_date,
                              largest_percentage_change, largest_crypto)

InsufficientData ==
    "ValueError: Insufficient data to calculate the largest percentage change."

\* (datetime.utcnow() - timedelta(days=3)).date()
ThreeDaysPrior(now) == (now - timedelta(3)) \div 86400

get_crypto_with_largest_percentage_change_from_3_days_prior(data, now) ==
    LET largest_crypto ==
            LargestScan(data, 1, ThreeDaysPrior(now), <<>>, <<>>, <<>>)
    IN  IF largest_crypto = <<>> THEN Raises(InsufficientData)
        ELSE Returns(largest_crypto)

(***************************************************************************)
(* Selector calls.  The mappings drawn are those of the data model: every  *)
(* asset's records ascend by date with no date twice, and the date strings *)
(* are strftime's.  A record list may be empty.                            *)
(***************************************************************************)
MaxSelectDays == 2

SelectDates == 18..(17 + MaxSelectDays)

EodValues == {1, 2}

\* Clock readings at noon, three days after each record date and after the
\* day that follows the last of them.
SelectClocks ==
    {timedelta(d + 3) + 43200 : d \in SelectDates \cup {18 + MaxSelectDays}}

SelectIdLists ==
    {<<>>, <<"monero">>, <<"nano", "monero">>, <<"tron", "nano", "monero">>}

\* The ascending record lists over the dates d .. last.
RECURSIVE AllSeries(_, _)
AllSeries(d, last) ==
    IF d > last THEN {<<>>}
    ELSE AllSeries(d + 1, last)
         \cup {<<Record(d, 0, v)>> \o rest :
                  v \in EodValues, rest \in AllSeries(d + 1, last)}

RECURSIVE Mappings(_, _)
Mappings(ids, i) ==
    IF i > Len(ids) THEN {<<>>}
    ELSE {<<[id |-> ids[i], recs |-> recs]>> \o rest :
             recs \in AllSeries(18, 17 + MaxSelectDays),
             rest \in Mappings(ids, i + 1)}

SelectInit ==
    /\ pc = "call"
    /\ result = <<>>
    /\ raised = ""
    /\ \E ids \in SelectIdLists : weekly_data \in Mappings(ids, 1)
    /\ given = weekly_data
    /\ utcnow = 0
    /\ StrategyIdle
    /\ FeeIdle
    /\ FetchIdle
    /\ WeeklyIdle

CallHighestEndOfDay ==
    /\ pc = "call"
    /\ LET r == get_crypto_with_highest_end_of_day_value(weekly_data)
       IN  result' = r.result /\ raised' = r.raised
    /\ pc' = "highest"
    /\ UNCHANGED <<strategy_vars, fee_vars, select_vars,
                   fetch_vars, weekly_vars>>

CallLowestEndOfDay ==
    /\ pc = "call"
    /\ LET r == get_crypto_with_lowest_end_of_day_value(weekly_data)
       IN  result' = r.result /\ raised' = r.raised
    /\ pc' = "lowest"
    /\ UNCHANGED <<strategy_vars, fee_vars, select_vars,
                   fetch_vars, weekly_vars>>

\* The selector reads datetime.utcnow() once, when it is called.
CallLargestChangeFrom3DaysPrior ==
    /\ pc = "call"
    /\ \E now \in SelectClocks :
          /\ utcnow' = now
          /\ LET r == get_crypto_with_largest_percentage_change_from_3_days_prior(
                          weekly_data, now)
             IN  result' = r.result /\ raised' = r.raised
    /\ pc' = "largest_change"
    /\ UNCHANGED <<weekly_data, given, strategy_vars, fee_vars,
                   fetch_vars, weekly_vars>>

SelectNext ==
    \/ CallHighestEndOfDay
    \/ CallLowestEndOfDay
    \/ CallLargestChangeFrom3DaysPrior

SpecSelect == SelectInit /\ [][SelectNext]_vars


(***************************************************************************)
(* Claims about the selectors, checked under SpecSelect.                   *)
(***************************************************************************)
RecordDates(i) ==
    {weekly_data[i].recs[j].date.dmy : j \in 1..Len(weekly_data[i].recs)}

AllRecordDates == UNION {RecordDates(i) : i \in 1..Len(weekly_data)}

\* The maximum date over all records of all assets.
MostRecentDate == CHOOSE d \in AllRecordDates : \A e \in AllRecordDates : e <= d

\* The closing value of asset i on date d (it has one record on d).
ClosingOn(i, d) ==
    LET j == CHOOSE j \in 1..Len(weekly_data[i].recs) :
                 weekly_data[i].recs[j].date.dmy = d
    IN  weekly_data[i].recs[j].end_of_day_value

Candidates == {i \in 1..Len(weekly_data) : MostRecentDate \in RecordDates(i)}

NoRecords == \A i \in 1..Len(weekly_data) : Len(weekly_data[i].recs) = 0

\* C5: the selectors return the asset whose closing value on the most recent
\* date (the maximum date over all records of all assets) is greatest / least
\* among the assets with a record on that date, the first such asset in
\* iteration order winning ties; the result always has a record on that date,
\* and a mapping of a single asset with a record returns that asset.
C5_SelectsOnMostRecentDate ==
    /\ (pc = "highest" /\ raised = "") =>
          \E i \in Candidates :
             /\ result = <<weekly_data[i].id>>
             /\ \A k \in Candidates :
                   ClosingOn(k, MostRecentDate) <= ClosingOn(i, MostRecentDate)
             /\ \A k \in Candidates :
                   k < i => ClosingOn(k, MostRecentDate) < ClosingOn(i, MostRecentDate)
    /\ (pc = "lowest" /\ raised = "") =>
          \E i \in Candidates :
             /\ result = <<weekly_data[i].id>>
             /\ \A k \in Candidates :
                   ClosingOn(k, MostRecentDate) >= ClosingOn(i, MostRecentDate)
             /\ \A k \in Candidates :
                   k < i => ClosingOn(k, MostRecentDate) > ClosingOn(i, MostRecentDate)
    /\ (pc \in {"highest", "lowest"} /\ Len(weekly_data) = 1
        /\ Len(weekly_data[1].recs) > 0) =>
          raised = "" /\ result = <<weekly_data[1].id>>

\* Three assets: the first lacks the most recent date and has the greatest
\* earlier value, the other two tie on the most recent date; the second wins.
C5_Witness ==
    /\ pc = "highest"
    /\ Len(weekly_data) = 3
    /\ ~NoRecords
    /\ Candidates = {2, 3}
    /\ ClosingOn(2, MostRecentDate) = 1
    /\ ClosingOn(3, MostRecentDate) = 1
    /\ \E j \in 1..Len(weekly_data[1].recs) :
          weekly_data[1].recs[j].end_of_day_value = 2
    /\ result = <<weekly_data[2].id>>

\* C6: the selectors raise ValueError instead of returning an asset exactly
\* when the mapping is empty or every asset's record list is empty; the error
\* 'no data for the most recent day' does not occur; on error no asset is
\* returned, and the mapping is as it was given.
C6_RaisesIffNoRecords ==
    pc \in {"highest", "lowest"} =>
        /\ (raised # "") <=> NoRecords
        /\ raised \in {"", NoData}
        /\ raised # "" => result = <<>>
        /\ raised = "" => Len(result) = 1
        /\ weekly_data = given

C6_Witness ==
    /\ pc = "lowest"
    /\ Len(weekly_data) = 2
    /\ NoRecords
    /\ raised = NoData
    /\ result = <<>>

(***************************************************************************)
(* The fetchers.  A naive datetime is a number of seconds counted from     *)
(* 1 Jan 1970 00:00, a date a number of days, a sample timestamp a number  *)
(* of milliseconds since the epoch, as the price service sends it.         *)
(***************************************************************************)
\* datetime.weekday(): Monday is 0
weekday(datetime) == Weekday(datetime \div 86400)

\* datetime.timestamp() of a naive datetime reads it as local time; int()
\* keeps the whole seconds.
timestamp(datetime, offset) == datetime - offset

\* datetime.utcfromtimestamp(timestamp / 1000).date()
UtcDate(ms) == (ms \div 1000) \div 86400

\* The keys of daily_data: the dates that have a sample.
SampleDates(prices) == {UtcDate(prices[i][1]) : i \in 1..Len(prices)}

\* daily_data[date]: the prices of the samples of that date, in input order.
DailyPrices(prices, date) ==
    LET kept == SelectSeq(prices, LAMBDA sample : UtcDate(sample[1]) = date)
    IN  [i \in 1..Len(kept) |-> kept[i][2]]

\* sorted(daily_data.items()): the keys are distinct, so the order is theirs.
RECURSIVE SortedDates(_)
SortedDates(dates) ==
    IF dates = {} THEN <<>>
    ELSE LET first == CHOOSE d \in dates : \A e \in dates : d <= e
         IN  <<first>> \o SortedDates(dates \ {first})

OpeningPrice(daily_prices) == daily_prices[1]

ClosingPrice_First(daily_prices) == daily_prices[1]

ClosingPrice(daily_prices) == daily_prices[Len(daily_prices)]

\* ((closing_price - opening_price) / opening_price) * 100; the prices of
\* the model divide every such product, so the quotient is the exact value.
DailyChange(opening_price, closing_price) ==
    ((closing_price - opening_price) * 100) \div opening_price

\* One formatted record; cryptolog.py writes no end_of_day_value.
Formatted(which, date, daily_prices) ==
    LET daily_change == DailyChange(OpeningPrice(daily_prices),
                                    ClosingPrice(daily_prices))
    IN  IF which = "cryptolog"
        THEN [date |-> strftime(date), change |-> daily_change]
        ELSE [date |-> strftime(date), change |-> daily_change,
              end_of_day_value |-> ClosingPrice(daily_prices)]

FormattedData(which, prices) ==
    LET dates == SortedDates(SampleDates(prices))
    IN  [i \in 1..Len(dates) |->
            Formatted(which, dates[i], DailyPrices(prices, dates[i]))]

\* weekly_changes[crypto_id].extend(formatted_data), the key created first
\* when it is new.
Extend(changes, crypto_id, formatted_data) ==
    IF crypto_id \in Ids(changes)
    THEN [changes EXCEPT ![IndexOf(changes, crypto_id)].recs =
                             @ \o formatted_data]
    ELSE Append(changes, [id |-> crypto_id, recs |-> formatted_data])

Fetched(changes, exception) == [changes |-> changes, raised |-> exception]

fetch_asset_Uncaught(which, changes, crypto_id, reply) ==
    IF reply.kind = "error" THEN Fetched(changes, "RequestException")
    ELSE IF Len(reply.prices) = 0 THEN Fetched(changes, "")
    ELSE Fetched(Extend(changes, crypto_id, FormattedData(which, reply.prices)), "")

\* The body of the loop over crypto_ids: a RequestException of the request
\* or of raise_for_status is caught and printed, an empty price list skips
\* the asset, anything else is grouped by day and appended.
fetch_asset(which, changes, crypto_id, reply) ==
    IF reply.kind = "error" THEN Fetched(changes, "")
    ELSE IF Len(reply.prices) = 0 THEN Fetched(changes, "")
    ELSE Fetched(Extend(changes, crypto_id, FormattedData(which, reply.prices)), "")

\* The start of the range a fetcher asks for, as a naive datetime.
RangeStart(which, now, wk, start) ==
    CASE which = "invest" -> start
      [] which = "crypto_recommendation" ->
            now - timedelta((weekday(now) - 2) % 7)
      [] OTHER ->
            now - timedelta(weekday(now) + 1) - timedelta(7 * wk) - timedelta(6)

RangeEnd(which, now, wk, end) ==
    CASE which = "invest" -> end
      [] which = "crypto_recommendation" -> now
      [] OTHER -> now - timedelta(weekday(now) + 1) - timedelta(7 * wk)

(***************************************************************************)
(* Fetcher calls.  The price service answers each request with a failure   *)
(* or with a list of samples whose timestamps lie in the range asked for.  *)
(***************************************************************************)
MaxSamples == 3

Fetchers == {"invest", "crypto_recommendation", "cryptolog"}

FetchIdLists == {<<>>, <<"monero">>, <<"monero", "nano">>, <<"nano", "nano">>}

NumWeeks == {1, 2}

Prices == {2, 5}

\* Monday 19 Jan 1970 12:00
Clocks == {timedelta(18) + 43200}

LocalOffsets == {0, 43200}

\* Monday 5 Jan 1970 00:00
StartDates == {timedelta(4)}

\* The timestamps of the samples the service holds for a range: at its
\* start, eighteen hours later, and two days after the start.
SampleTimes(from_timestamp, to_timestamp) ==
    {ms \in {from_timestamp * 1000 + 21600000 * h : h \in {0, 3, 8}} :
        ms <= to_timestamp * 1000}

RECURSIVE SampleLists(_, _)
SampleLists(samples, n) ==
    IF n = 0 THEN {<<>>}
    ELSE LET shorter == SampleLists(samples, n - 1)
         IN  shorter \cup {Append(p, s) : p \in shorter, s \in samples}

Responses(crypto_id, from_timestamp, to_timestamp, budget) ==
    {[id |-> crypto_id, kind |-> "error", prices |-> <<>>]}
    \cup
    {[id |-> crypto_id, kind |-> "ok", prices |-> p] :
        p \in SampleLists(SampleTimes(from_timestamp, to_timestamp) \X Prices,
                          budget)}

FetchInit ==
    /\ pc = "fetching"
    /\ result = <<>>
    /\ raised = ""
    /\ fetcher \in Fetchers
    /\ crypto_ids \in FetchIdLists
    /\ num_weeks \in IF fetcher = "cryptolog" THEN NumWeeks ELSE {1}
    /\ today \in Clocks
    /\ utc_offset \in LocalOffsets
    /\ start_date \in IF fetcher = "invest" THEN StartDates ELSE {0}
    /\ end_date = IF fetcher = "invest" THEN start_date + timedelta(6) ELSE 0
    /\ week = 0
    /\ next_id = 1
    /\ weekly_changes = <<>>
    /\ response = NoResponse
    /\ samples_left = MaxSamples
    /\ requests_made = 0
    /\ succeeded = {}
    /\ failed = {}
    /\ StrategyIdle
    /\ FeeIdle
    /\ SelectIdle
    /\ WeeklyIdle

\* for week in range(num_weeks): for crypto_id in crypto_ids
LoopsContinue == week < num_weeks /\ next_id <= Len(crypto_ids)

\* One request and what the loop body makes of its response.
FetchAsset ==
    /\ pc = "fetching"
    /\ LoopsContinue
    /\ LET crypto_id == crypto_ids[next_id]
           from_timestamp ==
               timestamp(RangeStart(fetcher, today, week, start_date), utc_offset)
           to_timestamp ==
               timestamp(RangeEnd(fetcher, today, week, end_date), utc_offset)
       IN  \E reply \in Responses(crypto_id, from_timestamp, to_timestamp,
                                  samples_left) :
              LET r == fetch_asset(fetcher, weekly_changes, crypto_id, reply)
              IN  /\ response' = reply
                  /\ samples_left' = samples_left - Len(reply.prices)
                  /\ requests_made' = requests_made + 1
                  /\ succeeded' =
                        IF reply.kind = "ok" /\ Len(reply.prices) > 0
                        THEN succeeded \cup {crypto_id} ELSE succeeded
                  /\ failed' =
                        IF reply.kind = "error"
                        THEN failed \cup {crypto_id} ELSE failed
                  /\ weekly_changes' = r.changes
                  /\ IF r.raised # ""
                     THEN /\ pc' = "raised"
                          /\ raised' = r.raised
                          /\ UNCHANGED <<week, next_id>>
                     ELSE /\ UNCHANGED <<pc, raised>>
                          /\ IF next_id < Len(crypto_ids)
                             THEN next_id' = next_id + 1 /\ week' = week
                             ELSE next_id' = 1 /\ week' = week + 1
    /\ UNCHANGED <<result, fetcher, crypto_ids, num_weeks, today, utc_offset,
                   start_date, end_date, strategy_vars, fee_vars, select_vars,
                   weekly_vars>>

InvestFetchAsset == fetcher = "invest" /\ FetchAsset

RecommendationFetchAsset == fetcher = "crypto_recommendation" /\ FetchAsset

CryptologFetchAsset == fetcher = "cryptolog" /\ FetchAsset

\* return weekly_changes
FetchReturn ==
    /\ pc = "fetching"
    /\ ~LoopsContinue
    /\ pc' = "returned"
    /\ result' = <<weekly_changes>>
    /\ UNCHANGED <<raised, fetch_vars, strategy_vars, fee_vars, select_vars,
                   weekly_vars>>

FetchNext ==
    \/ InvestFetchAsset
    \/ RecommendationFetchAsset
    \/ CryptologFetchAsset
    \/ FetchReturn

SpecFetch == FetchInit /\ [][FetchNext]_vars

(***************************************************************************)
(* Claims about the fetchers, checked under SpecFetch.  A step that makes  *)
(* a request is a step that counts one.                                    *)
(***************************************************************************)
Requested == requests_made' = requests_made + 1

KeysOf(changes) == {changes[i].id : i \in 1..Len(changes)}

Series(changes, id) ==
    IF id \in KeysOf(changes)
    THEN changes[CHOOSE i \in 1..Len(changes) : changes[i].id = id].recs
    ELSE <<>>

\* The records the request just made added to its asset's list.
AddedRecords ==
    SubSeq(Series(weekly_changes', response'.id),
           Len(Series(weekly_changes, response'.id)) + 1,
           Len(Series(weekly_changes', response'.id)))

\* The lists as they were are kept: the asset's as a prefix, the others whole.
Kept ==
    \A id \in KeysOf(weekly_changes) :
       /\ id \in KeysOf(weekly_changes')
       /\ SubSeq(Series(weekly_changes', id), 1, Len(Series(weekly_changes, id)))
             = Series(weekly_changes, id)
       /\ id # response'.id =>
             Series(weekly_changes', id) = Series(weekly_changes, id)

\* The UTC calendar date of a timestamp in milliseconds, as a day number.
CalendarDate(ms) == ms \div 86400000

SampledDates(prices) == {CalendarDate(prices[i][1]) : i \in 1..Len(prices)}

SamplesOn(prices, d) == {i \in 1..Len(prices) : CalendarDate(prices[i][1]) = d}

FirstSample(prices, d) ==
    prices[CHOOSE i \in SamplesOn(prices, d) :
              \A k \in SamplesOn(prices, d) : i <= k][2]

LastSample(prices, d) ==
    prices[CHOOSE i \in SamplesOn(prices, d) :
              \A k \in SamplesOn(prices, d) : k <= i][2]

RecordsOf(records, d) == {j \in 1..Len(records) : records[j].date = strftime(d)}

\* One record for each date with a sample and none for any other date, its
\* change (last - first) / first * 100 over the date's samples in input order.
OneRecordPerSampledDate(prices, added) ==
    /\ \A d \in SampledDates(prices) :
          \E j \in 1..Len(added) :
             /\ RecordsOf(added, d) = {j}
             /\ added[j].change * FirstSample(prices, d)
                   = (LastSample(prices, d) - FirstSample(prices, d)) * 100
    /\ \A j \in 1..Len(added) :
          \E d \in SampledDates(prices) : added[j].date = strftime(d)

ClosingIsLast(prices, added) ==
    \A j \in 1..Len(added) :
       /\ "end_of_day_value" \in DOMAIN added[j]
       /\ \A d \in SampledDates(prices) :
             added[j].date = strftime(d) =>
                added[j].end_of_day_value = LastSample(prices, d)

\* C8 as stated: every fetcher's aggregation emits one record per sampled UTC
\* date with change (last - first) / first * 100 and closing value last, and
\* after an empty sample list the asset is absent from the result.
C8_EveryFetcherRecordsClosingValue ==
    [][(Requested /\ response'.kind = "ok") =>
          /\ Kept
          /\ OneRecordPerSampledDate(response'.prices, AddedRecords)
          /\ ClosingIsLast(response'.prices, AddedRecords)
          /\ response'.prices = <<>> =>
                response'.id \notin KeysOf(weekly_changes')]_vars

\* C8: each fetcher's aggregation adds, for the samples of one response, one
\* record per UTC date that has a sample and none for other dates, with
\* change (last - first) / first * 100 over that date's samples in input
\* order; the invest.py and crypto_recommendation.py records carry the closing
\* value last, the cryptolog.py records carry a date and a change only; an
\* empty sample list leaves the mapping as it was.
C8_AggregatesByUtcDate ==
    [][(Requested /\ response'.kind = "ok") =>
          /\ Kept
          /\ KeysOf(weekly_changes') \subseteq KeysOf(weekly_changes) \cup {response'.id}
          /\ OneRecordPerSampledDate(response'.prices, AddedRecords)
          /\ IF fetcher = "cryptolog"
             THEN \A j \in 1..Len(AddedRecords) :
                     DOMAIN AddedRecords[j] = {"date", "change"}
             ELSE ClosingIsLast(response'.prices, AddedRecords)
          /\ response'.prices = <<>> => weekly_changes' = weekly_changes]_vars

\* cryptolog.py has grouped three samples given out of time order: 2 and
\* then 5 on one date, a sample of another date between them.
C8_Witness ==
    /\ fetcher = "cryptolog"
    /\ response.kind = "ok"
    /\ Len(response.prices) = 3
    /\ \E d \in SampledDates(response.prices) :
          /\ SamplesOn(response.prices, d) = {1, 3}
          /\ response.prices[1][2] = 2
          /\ response.prices[3][2] = 5
          /\ Series(weekly_changes, response.id)
                = <<[date |-> strftime(d), change |-> 150],
                    [date |-> strftime(d + 2), change |-> 0]>>

\* C9: in the result of every fetcher, for any num_weeks >= 1 and any
\* crypto_ids, each asset's records are in strictly ascending date order,
\* so without a repeated date.
C9_AscendingNoDuplicates ==
    \A i \in 1..Len(weekly_changes) :
       \A j, k \in 1..Len(weekly_changes[i].recs) :
          j < k => strptime(weekly_changes[i].recs[j].date)
                      < strptime(weekly_changes[i].recs[k].date)

\* The n-th request of a call asks for the assets in list order, week by week.
ExpectedRequest(n) == crypto_ids[(n % Len(crypto_ids)) + 1]

\* C10: a RequestException while fetching one asset is caught: the call goes
\* on, the mapping stays as it was, the assets are requested in list order
\* whatever the responses, every request is made before the call returns,
\* and the keys of the mapping are the assets that had a successful fetch
\* with a non-empty price list.
C10_FailureSkipsTheAsset ==
    /\ [](/\ pc \in {"fetching", "returned"}
          /\ raised = ""
          /\ KeysOf(weekly_changes) = succeeded
          /\ pc = "returned" =>
                /\ requests_made = num_weeks * Len(crypto_ids)
                /\ result = <<weekly_changes>>)
    /\ [][Requested =>
             /\ response'.id = ExpectedRequest(requests_made)
             /\ response'.kind = "error" =>
                   /\ weekly_changes' = weekly_changes
                   /\ pc' = "fetching"]_vars

\* The request for the first of two assets failed, the second succeeded.
C10_Witness ==
    /\ pc = "returned"
    /\ crypto_ids = <<"monero", "nano">>
    /\ num_weeks = 1
    /\ failed = {"monero"}
    /\ KeysOf(weekly_changes) = {"nano"}
    /\ requests_made = 2

(***************************************************************************)
(* simulate_weekly_investments.  One step is one iteration of its loop     *)
(* over the weeks: the fetch of the week, one request per asset, and the   *)
(* strategy run on what the fetch returned.                                *)
(***************************************************************************)
WEEKS == 4

WEEK_DAYS == 7

\* The loop of the invest.py fetcher over crypto_ids, a reply per asset.
RECURSIVE fetch_from(_, _, _, _)
fetch_from(ids, replies, i, changes) ==
    IF i > Len(ids) THEN changes
    ELSE fetch_from(ids, replies, i + 1,
                    fetch_asset("invest", changes, ids[i], replies[i]).changes)

fetch_week(ids, replies) == fetch_from(ids, replies, 1, <<>>)

\* The samples the service holds for `length` days from from_timestamp: an
\* opening sample at the start of each day and a closing one six hours on,
\* up to to_timestamp.
DaySamples(from_timestamp, to_timestamp, length, opening, closing) ==
    LET at(k) == (from_timestamp + timedelta(k)) * 1000
        both == [n \in 1..(2 * length) |->
                    IF n % 2 = 1 THEN <<at((n - 1) \div 2), opening>>
                    ELSE <<at((n - 2) \div 2) + 21600000, closing>>]
    IN  SelectSeq(both, LAMBDA sample : sample[1] <= to_timestamp * 1000)

\* What the service may answer for one asset and one week: a failure, no
\* prices, a week of prices or the first three days of one.
WeekReplies(crypto_id, from_timestamp, to_timestamp) ==
    LET Ok(prices) == [id |-> crypto_id, kind |-> "ok", prices |-> prices]
        Week(length, opening, closing) ==
            Ok(DaySamples(from_timestamp, to_timestamp, length, opening, closing))
    IN  CASE crypto_id = "bitcoin" ->
                {[id |-> crypto_id, kind |-> "error", prices |-> <<>>],
                 Week(WEEK_DAYS, 2, 5)}
          [] crypto_id = "monero" ->
                {[id |-> crypto_id, kind |-> "error", prices |-> <<>>],
                 Ok(<<>>), Week(WEEK_DAYS, 4, 5), Week(3, 4, 5)}
          [] OTHER ->
                {[id |-> crypto_id, kind |-> "error", prices |-> <<>>],
                 Week(WEEK_DAYS, 5, 4)}

RECURSIVE ReplyLists(_, _, _, _)
ReplyLists(ids, i, from_timestamp, to_timestamp) ==
    IF i > Len(ids) THEN {<<>>}
    ELSE {<<reply>> \o rest :
             reply \in WeekReplies(ids[i], from_timestamp, to_timestamp),
             rest \in ReplyLists(ids, i + 1, from_timestamp, to_timestamp)}

MonthIdLists == {<<"monero", "nano">>, <<"bitcoin", "nano">>}

\* Monday 22 Dec 1969 00:00
MonthStarts == {timedelta(-10)}

Seeds == {DecOf(100, 0)}

\* The strategy argument; a name outside the table runs the highest strategy.
StrategyNames == Strategies \cup {"hodl"}

WeeklyInit ==
    /\ pc = "weeks"
    /\ result = <<>>
    /\ raised = ""
    /\ chosen \in StrategyNames
    /\ month_ids \in MonthIdLists
    /\ initial_weekly_investment \in Seeds
    /\ current_date \in MonthStarts
    /\ month_week = 0
    /\ fetched = <<>>
    /\ total_portfolio_value = DecZero
    /\ profit = <<>>
    /\ contributions = <<>>
    /\ StrategyIdle
    /\ FeeIdle
    /\ SelectIdle
    /\ FetchIdle

\* One iteration of `for week in range(4)`.
SimulateWeek ==
    /\ pc = "weeks"
    /\ month_week < WEEKS
    /\ LET week_start == current_date
           week_end == week_start + timedelta(6)
       IN  \E replies \in ReplyLists(month_ids, 1,
                                     timestamp(week_start, utc_offset),
                                     timestamp(week_end, utc_offset)) :
              LET data == fetch_week(month_ids, replies)
              IN  /\ fetched' = data
                  /\ IF Len(data) = 0
                     THEN /\ current_date' = current_date + timedelta(7)
                          /\ month_week' = month_week + 1
                          /\ contributions' = Append(contributions, DecZero)
                          /\ UNCHANGED <<pc, raised, total_portfolio_value>>
                     ELSE LET r == RunStrategy(chosen, data,
                                               initial_weekly_investment,
                                               WEEK_DAYS)
                          IN  IF r.raised # ""
                              THEN /\ pc' = "raised"
                                   /\ raised' = r.raised
                                   /\ UNCHANGED <<current_date, month_week,
                                                  contributions,
                                                  total_portfolio_value>>
                              ELSE /\ total_portfolio_value' =
                                         DecAdd(total_portfolio_value,
                                                r.portfolio_value)
                                   /\ contributions' =
                                         Append(contributions, r.portfolio_value)
                                   /\ current_date' = current_date + timedelta(7)
                                   /\ month_week' = month_week + 1
                                   /\ UNCHANGED <<pc, raised>>
    /\ UNCHANGED <<result, chosen, month_ids, initial_weekly_investment, profit,
                   strategy_vars, fee_vars, select_vars, fetch_vars>>

\* After the loop: the profit is computed and printed with the total, and
\* the function ends without a return statement, so it returns None.
ReportMonth ==
    /\ pc = "weeks"
    /\ month_week >= WEEKS
    /\ profit' = <<DecSub(total_portfolio_value,
                          DecMul(initial_weekly_investment, DecOf(WEEKS, 0)))>>
    /\ pc' = "returned"
    /\ result' = <<>>
    /\ UNCHANGED <<raised, chosen, month_ids, initial_weekly_investment,
                   current_date, month_week, fetched, total_portfolio_value,
                   contributions, strategy_vars, fee_vars, select_vars,
                   fetch_vars>>

WeeklyNext == SimulateWeek \/ ReportMonth

SpecWeekly == WeeklyInit /\ [][WeeklyNext]_vars


(***************************************************************************)
(* Claims about simulate_weekly_investments, checked under SpecWeekly.     *)
(***************************************************************************)
RECURSIVE SumOf(_, _)
SumOf(values, i) ==
    IF i > Len(values) THEN DecZero
    ELSE DecAdd(values[i], SumOf(values, i + 1))

\* What a week with fetch result `data` adds: nothing when the result is
\* empty, else the chosen strategy's value after 7 days from the seed.
WeekValue(data) ==
    IF Len(data) = 0 THEN DecZero
    ELSE RunStrategy(IF chosen \in Strategies THEN chosen ELSE "highest", data,
                     initial_weekly_investment, 7).portfolio_value

\* The totals of the month: every finished week added its own value, the
\* total is their sum, 4 weeks are processed before the profit, total minus
\* 4 seeds, is reported.
MonthTotals ==
    /\ Len(contributions) = month_week
    /\ total_portfolio_value = SumOf(contributions, 1)
    /\ (pc = "weeks" /\ month_week > 0) =>
          contributions[month_week] = WeekValue(fetched)
    /\ pc = "returned" =>
          /\ month_week = 4
          /\ profit = <<DecSub(total_portfolio_value,
                               DecMul(DecOf(4, 0), initial_weekly_investment))>>

AllWeeksEmpty ==
    /\ Len(contributions) = 4
    /\ \A w \in 1..4 : contributions[w] = DecZero

\* C4: simulate_weekly_investments processes 4 weeks, an empty week adding 0
\* and any other the strategy's 7-day value from the seed; it returns the
\* total, the sum of these, and reports the profit total - 4 * seed; when all
\* 4 weeks are empty it returns 0 and reports -(4 * seed).
C4_ReturnsMonthTotal ==
    /\ MonthTotals
    /\ pc = "returned" =>
          /\ result = <<total_portfolio_value>>
          /\ AllWeeksEmpty =>
                /\ result = <<DecZero>>
                /\ profit = <<DecNeg(DecMul(initial_weekly_investment, DecOf(4, 0)))>>

\* A fetch result that is not empty and not complete: some asset other than
\* bitcoin has fewer than 7 daily records, or bitcoin is the only asset.
Incomplete(data) ==
    /\ Len(data) > 0
    /\ \/ \E i \in 1..Len(data) :
             data[i].id # "bitcoin" /\ Len(data[i].recs) < 7
       \/ \A i \in 1..Len(data) : data[i].id = "bitcoin"

\* C17: in simulate_weekly_investments a week whose fetch result is not
\* empty but incomplete is not skipped: the strategy call raises IndexError
\* or ValueError, nothing catches it, the weeks after it are not processed
\* and no total or profit is reported; only an empty fetch result is skipped,
\* the run going on to the next week.
C17_IncompleteWeekAbortsMonth ==
    /\ [](/\ Incomplete(fetched) <=> pc = "raised"
          /\ pc = "raised" =>
                /\ raised \in {"IndexError", "ValueError"}
                /\ month_week < 4
                /\ profit = <<>>
                /\ result = <<>>
          /\ pc = "returned" => raised = "" /\ month_week = 4)
    /\ [][(pc = "weeks" /\ month_week < 4) =>
             /\ Incomplete(fetched') =>
                   /\ pc' = "raised"
                   /\ month_week' = month_week
                   /\ total_portfolio_value' = total_portfolio_value
             /\ Len(fetched') = 0 =>
                   /\ pc' = "weeks"
                   /\ month_week' = month_week + 1
                   /\ total_portfolio_value' = total_portfolio_value]_vars

\* The second week's fetch returned three days of monero beside a full week
\* of nano, after a first week that was processed: the run ended there.
C17_Witness ==
    /\ pc = "raised"
    /\ raised = "IndexError"
    /\ month_week = 1
    /\ Len(contributions) = 1
    /\ ~total_portfolio_value.neg /\ total_portfolio_value # DecZero
    /\ Len(fetched) = 2
    /\ fetched[1].id = "monero" /\ Len(fetched[1].recs) = 3
    /\ fetched[2].id = "nano" /\ Len(fetched[2].recs) = 7
    /\ profit = <<>>

\* The only asset the fetch returned is bitcoin: max() of no candidates.
OnlyBitcoinFetched ==
    /\ pc = "raised"
    /\ raised = "ValueError"
    /\ Len(fetched) = 1
    /\ fetched[1].id = "bitcoin" /\ Len(fetched[1].recs) = 7

(***************************************************************************)
(* Claims about the daily step of the strategies, checked under            *)
(* SpecStrategy.  A step that ends a day is a step that counts one.        *)
(***************************************************************************)
DayEnds == day' = day + 1

\* The assets a strategy chooses among, in iteration order, and their
\* records as they stand after the step.
Candidate(i) == crypto_data'[i].id # "bitcoin"

ChangeOn(id, d) ==
    crypto_data'[CHOOSE i \in 1..Len(crypto_data') : crypto_data'[i].id = id]
        .recs[d + 1].change

\* The leader of day d for highest and lowest: the first candidate whose
\* change that day is the greatest (lowest: the least).
DailyLeader(d) ==
    LET c(i) == crypto_data'[i].recs[d + 1].change
        best == CHOOSE i \in 1..Len(crypto_data') :
                   /\ Candidate(i)
                   /\ \A j \in 1..Len(crypto_data') : Candidate(j) =>
                         IF strategy = "lowest" THEN c(i) <= c(j) ELSE c(i) >= c(j)
                   /\ \A j \in 1..(i - 1) : Candidate(j) => c(j) # c(i)
    IN  crypto_data'[best].id

FlatFee(id) == IF id \in DOMAIN TRANSACTION_FEES THEN TRANSACTION_FEES[id] ELSE DecZero

\* max(0, v * (1 + change/100) * (1 - 0.001) - fee)
Charged(v, change, id) ==
    LET after == DecSub(DecMul(DecMul(v, DecOf(100 + change, 2)), DecOf(999, 3)),
                        FlatFee(id))
    IN  IF after.neg THEN DecZero ELSE after

\* C11: in the highest and lowest strategies, on every day d >= 1 the value
\* becomes max(0, value * (1 + change[held][d]/100) * (1 - 0.001) - fee[held])
\* where held is the leader of day d-1, not day d's: once per day, whether
\* or not day d's leader is the held asset.
C11_HeldAssetChargedDaily ==
    [][(strategy \in {"highest", "lowest"} /\ DayEnds /\ day >= 1) =>
          /\ top_performer_from_yesterday = DailyLeader(day - 1)
          /\ portfolio_value' =
                Charged(portfolio_value,
                        ChangeOn(top_performer_from_yesterday, day),
                        top_performer_from_yesterday)]_vars

\* Day 1 of a highest run over three assets has ended: litecoin led day 0
\* with 10 against nano's 2, nano leads day 1 with 10 while litecoin lost 5,
\* and the value is 100 * 0.95 * 0.999 - 0.03, litecoin's change and fee.
C11_Witness ==
    /\ strategy = "highest"
    /\ day = 2
    /\ initial_btc = DecOf(100, 0)
    /\ Len(crypto_data) = 3
    /\ crypto_data[2].recs[1].change = 2
    /\ crypto_data[3].recs[1].change = 10
    /\ crypto_data[2].recs[2].change = 10
    /\ crypto_data[3].recs[2].change = -5
    /\ top_performer_from_yesterday = "nano"
    /\ portfolio_value = DecOf(94875, 3)
\* The leader of day d for the wave strategy: the first candidate whose
\* changes over days max(0, d - 2) .. d have the greatest sum.
WindowDays(d) == {e \in 0..d : e >= d - 2}

RECURSIVE SumOver(_, _)
SumOver(i, ds) ==
    IF ds = {} THEN 0
    ELSE LET e == CHOOSE x \in ds : TRUE
         IN  crypto_data'[i].recs[e + 1].change + SumOver(i, ds \ {e})

WaveLeader(d) ==
    LET score(i) == SumOver(i, WindowDays(d))
        best == CHOOSE i \in 1..Len(crypto_data') :
                   /\ Candidate(i)
                   /\ \A j \in 1..Len(crypto_data') : Candidate(j) =>
                         score(i) >= score(j)
                   /\ \A j \in 1..(i - 1) : Candidate(j) => score(j) # score(i)
    IN  crypto_data'[best].id

\* C12: in the wave strategy, on every day d >= 1 the value is updated once,
\* by the held asset's day-d change, the swap fee and the held asset's
\* transaction fee, floored at zero; the change and fees of day d's new
\* leader are not applied that day.
C12_WaveChargesHeldAssetOnly ==
    [][(strategy = "wave" /\ DayEnds /\ day >= 1) =>
          portfolio_value' =
             Charged(portfolio_value,
                     ChangeOn(top_performer_from_yesterday, day),
                     top_performer_from_yesterday)]_vars

\* What the wave strategy does on a day d >= 1: the held asset's change and
\* fees, and then the new leader's change and fees on top.
WaveChargesTwice ==
    [][(strategy = "wave" /\ DayEnds /\ day >= 1) =>
          portfolio_value' =
             Charged(Charged(portfolio_value,
                             ChangeOn(top_performer_from_yesterday, day),
                             top_performer_from_yesterday),
                     ChangeOn(WaveLeader(day), day), WaveLeader(day))]_vars
\* C13: in the wave strategy the score of a candidate on day d is the sum of
\* its changes over days max(0, d - 2) .. d (1 day on day 0, 2 on day 1, 3
\* afterwards), and the leader of day d, held from then on, is the first
\* candidate in iteration order with the greatest score.
C13_WaveScoresTrailingWindow ==
    [][(strategy = "wave" /\ DayEnds) =>
          /\ Cardinality(WindowDays(day)) = IF day < 2 THEN day + 1 ELSE 3
          /\ top_performer_from_yesterday' = WaveLeader(day)]_vars

\* Day 3 of a wave run has ended: over days 1 .. 3 litecoin gained 15 and
\* nano 6, while over all four days nano gained 16 and litecoin 10, and on
\* day 3 alone nano did better; litecoin leads.
C13_Witness ==
    /\ strategy = "wave"
    /\ day = 4
    /\ Len(crypto_data) = 3
    /\ [d \in 1..4 |-> crypto_data[2].recs[d].change] = <<10, 2, 2, 2>>
    /\ [d \in 1..4 |-> crypto_data[3].recs[d].change] = <<-5, 10, 10, -5>>
    /\ top_performer_from_yesterday = "litecoin"
\* C14: in all three strategies the leader of day d is chosen among the
\* input's assets other than bitcoin only (highest and wave: the first with
\* the greatest score, lowest: the first with the least), and after day d
\* the held asset is day d's leader whether or not it was held before; so
\* the held asset is always unset or a key of the input other than bitcoin.
C14_HeldIsLeaderNeverBitcoin ==
    /\ [](\/ top_performer_from_yesterday = ""
          \/ /\ top_performer_from_yesterday # "bitcoin"
             /\ \E i \in 1..Len(crypto_data) :
                   crypto_data[i].id = top_performer_from_yesterday)
    /\ [][(strategy \in Strategies /\ DayEnds) =>
             top_performer_from_yesterday' =
                IF strategy = "wave" THEN WaveLeader(day) ELSE DailyLeader(day)]_vars

\* Two days of a highest run have ended: bitcoin rose 50 on both, nano led
\* the others on both and is held.
C14_Witness ==
    /\ strategy = "highest"
    /\ day = 2
    /\ Len(crypto_data) = 3
    /\ crypto_data[1].id = "bitcoin"
    /\ [d \in 1..2 |-> crypto_data[1].recs[d].change] = <<50, 50>>
    /\ [d \in 1..2 |-> crypto_data[2].recs[d].change] = <<10, 10>>
    /\ [d \in 1..2 |-> crypto_data[3].recs[d].change] = <<-5, -5>>
    /\ top_performer_from_yesterday = "nano"
\* C15: apply_transaction_fee is not floored, it returns v - fee even when
\* that is negative, while calculate_portfolio_value floors at zero; so the
\* value of every strategy is >= 0 after every day, and once it is 0 it stays
\* 0 for the rest of the run.
C15_ValueNeverNegative ==
    /\ [](/\ ~portfolio_value.neg
          /\ \A id \in FeeIds :
                /\ apply_transaction_fee(portfolio_value, id)
                      = DecSub(portfolio_value, TRANSACTION_FEES[id])
                /\ DecLess(portfolio_value, TRANSACTION_FEES[id]) =>
                      apply_transaction_fee(portfolio_value, id).neg)
    /\ [][portfolio_value = DecZero => portfolio_value' = DecZero]_vars

\* A highest run from 0.04 over monero, whose fee is 0.05: day 1 took the
\* value to 0, day 2 left it there, and the fee function still gives -0.05.
C15_Witness ==
    /\ strategy = "highest"
    /\ initial_btc = DecOf(4, 2)
    /\ day = 3
    /\ top_performer_from_yesterday = "monero"
    /\ portfolio_value = DecZero
    /\ apply_transaction_fee(portfolio_value, "monero") = DecOf(-5, 2)
(***************************************************************************)
(* Claim about the selector over the change since three days ago, checked  *)
(* under SpecSelect.                                                       *)
(***************************************************************************)
PriorDate == (utcnow - 3 * 86400) \div 86400

\* The assets that have a record on the three-days-prior date.
Eligible == {i \in 1..Len(weekly_data) : PriorDate \in RecordDates(i)}

\* The closing value of asset i on its own most recent day.
OwnLatest(i) ==
    ClosingOn(i, CHOOSE d \in RecordDates(i) : \A e \in RecordDates(i) : e <= d)

\* The percentage change of asset i from the three-days-prior date to its own
\* most recent day.
ChangeSincePrior(i) ==
    ((OwnLatest(i) - ClosingOn(i, PriorDate)) * 100) \div ClosingOn(i, PriorDate)

\* C16: get_crypto_with_largest_percentage_change_from_3_days_prior returns
\* the asset with the largest percentage change from its closing value on the
\* date three days before the current date to its closing value on its own
\* most recent day, over all assets with a record on the three-days-prior
\* date, the first in iteration order winning ties; it raises ValueError only
\* when no asset has a record on that date.
C16_LargestChangeOverAllAssets ==
    pc = "largest_change" =>
        /\ raised # "" => Eligible = {}
        /\ raised = "" =>
              \E i \in Eligible :
                 /\ result = <<weekly_data[i].id>>
                 /\ \A k \in Eligible : ChangeSincePrior(k) <= ChangeSincePrior(i)
                 /\ \A k \in Eligible :
                       k < i => ChangeSincePrior(k) < ChangeSincePrior(i)

\* What the selector does on mappings whose first asset has a record on the
\* latest date of all: no later asset gets a latest price, so the first asset
\* is returned when it has a record on the three-days-prior date and
\* ValueError is raised otherwise, whatever the other assets hold.
OnlyFirstAssetIsScored ==
    (pc = "largest_change" /\ Len(weekly_data) > 0 /\ ~NoRecords
     /\ MostRecentDate \in RecordDates(1)) =>
        IF 1 \in Eligible
        THEN raised = "" /\ result = <<weekly_data[1].id>>
        ELSE raised = InsufficientData /\ result = <<>>

\* Two assets with records on both dates: the first falls from 2 to 1, the
\* second rises from 1 to 2, and the first is returned.
LargerChangeOfSecondAssetIgnored ==
    /\ pc = "largest_change"
    /\ Len(weekly_data) = 2
    /\ PriorDate = 18
    /\ RecordDates(1) = {18, 19} /\ RecordDates(2) = {18, 19}
    /\ ChangeSincePrior(1) = -50
    /\ ChangeSincePrior(2) = 100
    /\ result = <<weekly_data[1].id>>

=============================================================================
